---- MODULE Spec2Model ----
(***************************************************************************)
(* The streaming status/response protocol of the chat frontend:            *)
(* fetchStreamWithErrorHandling (utils/apiClient.js), ChatProvider         *)
(* (contexts/TopicContext.js) and MainChat.handleSend.  The text of the    *)
(* input field is an input of handleSend.                                  *)
(*                                                                         *)
(* A JavaScript string is a sequence of tokens.  A token stands for one    *)
(* indivisible piece of text: "\n", " ", the head or the tail of a JSON    *)
(* envelope, a whole small JSON document, or a fixed literal of the code.  *)
(* A JSON value is a record with a field k naming its kind.                *)
(***************************************************************************)
EXTENDS Integers, Sequences, FiniteSets, TLC

VARIABLES
    messages,   \* ChatProvider: the turn list
    isTyping,   \* ChatProvider: the typing flag
    reqs,       \* one record per sendMessage call that passed the blank check
    now,        \* Date.now()
    calls,      \* the number of sendMessage calls made
    settings,   \* SettingsProvider: the settings object
    storage,    \* localStorage: cosmos_user_id and cosmos_db_settings
    pendingWrite,   \* the write-back effect of SettingsProvider is scheduled
    drawn       \* Math.random(): the number of values drawn

vars ==
    <<messages, isTyping, reqs, now, calls, settings, storage, pendingWrite, drawn>>
session == <<settings, storage, pendingWrite, drawn>>

----------------------------------------------------------------------------
(* Bounds *)

MaxRequests == 2    \* sendMessage calls in the chat specification
MaxLines == 3       \* lines of a response body in the stream specification
MaxCalls == 3       \* sendMessage calls in the provider specification

----------------------------------------------------------------------------
(* Strings *)

NL == "\n"
SP == " "
Whitespace == {SP, NL}

IsBlank(s) == \A i \in 1..Len(s) : s[i] \in Whitespace

RECURSIVE TrimStart(_)
TrimStart(s) ==
    IF s # <<>> /\ Head(s) \in Whitespace THEN TrimStart(Tail(s)) ELSE s

RECURSIVE TrimEnd(_)
TrimEnd(s) ==
    IF s # <<>> /\ s[Len(s)] \in Whitespace
    THEN TrimEnd(SubSeq(s, 1, Len(s) - 1))
    ELSE s

Trim(s) == TrimEnd(TrimStart(s))

\* s.split('\n'): the segments between newlines, empty ones included
RECURSIVE Split(_)
Split(s) ==
    IF \E i \in 1..Len(s) : s[i] = NL
    THEN LET i == CHOOSE j \in 1..Len(s) :
                      s[j] = NL /\ \A h \in 1..(j - 1) : s[h] # NL
         IN  <<SubSeq(s, 1, i - 1)>> \o Split(SubSeq(s, i + 1, Len(s)))
    ELSE <<s>>

\* s.split('\n').filter(line => line.trim())
SplitLines(s) == SelectSeq(Split(s), LAMBDA l : ~IsBlank(l))

\* xs.join(sep) for a list of strings
RECURSIVE Join(_, _)
Join(xs, sep) ==
    IF xs = <<>> THEN <<>>
    ELSE IF Len(xs) = 1 THEN xs[1]
    ELSE xs[1] \o sep \o Join(Tail(xs), sep)

\* s.replace(t, ''): the first occurrence of the token t removed
RECURSIVE Replace(_, _)
Replace(s, t) ==
    IF s = <<>> THEN <<>>
    ELSE IF Head(s) = t THEN Tail(s)
    ELSE <<Head(s)>> \o Replace(Tail(s), t)

----------------------------------------------------------------------------
(* JSON values *)

Undefined == [k |-> "undefined"]
JNull == [k |-> "null"]
JStr(s) == [k |-> "str", s |-> s]
JTrue == [k |-> "bool", b |-> TRUE]

\* v.f for a value that is not null or undefined
Get(v, f) == IF v.k = "obj" /\ f \in DOMAIN v THEN v[f] ELSE Undefined

\* reading a property of v raises a TypeError
Throws(v) == v.k \in {"null", "undefined"}

Truthy(v) ==
    CASE v.k = "obj" -> TRUE
      [] v.k = "str" -> v.s # <<>>
      [] v.k = "bool" -> v.b
      [] OTHER -> FALSE

\* `${v}`
ToStr(v) ==
    CASE v.k = "str" -> v.s
      [] v.k = "null" -> <<"null">>
      [] v.k = "undefined" -> <<"undefined">>
      [] v.k = "bool" -> IF v.b THEN <<"true">> ELSE <<"false">>
      [] OTHER -> <<"[object Object]">>

\* the text an element contributes to Array.prototype.join
JoinStr(v) == IF v.k \in {"null", "undefined"} THEN <<>> ELSE ToStr(v)

ObjX == [k |-> "obj", content |-> JStr(<<"X">>)]

StatusHeads == {"{sA", "{s"}
MsgTails == {"m1}", "m2}"}
AnswerTails == {"X}", "null}", "e}"}

AgentOf(h) == IF h = "{sA" THEN JStr(<<"A">>) ELSE JNull
MsgOf(t) == IF t = "m1}" THEN JStr(<<"m1">>) ELSE JStr(<<"m2">>)
AnswerOf(t) ==
    CASE t = "X}" -> ObjX
      [] t = "null}" -> JNull
      [] OTHER -> JStr(<<>>)

StatusEnvelope(agent, msg) ==
    [k |-> "obj", type |-> JStr(<<"status">>), agent |-> agent, message |-> msg]
ResponseEnvelope(answer) ==
    [k |-> "obj", type |-> JStr(<<"response">>), final_answer |-> answer]

\* JSON.parse(line): ok = FALSE when it raises a SyntaxError
JSONParse(line) ==
    LET t == Trim(line) IN
    IF Len(t) = 2 /\ t[1] \in StatusHeads /\ t[2] \in MsgTails
    THEN [ok |-> TRUE, v |-> StatusEnvelope(AgentOf(t[1]), MsgOf(t[2]))]
    ELSE IF Len(t) = 2 /\ t[1] = "{r" /\ t[2] \in AnswerTails
    THEN [ok |-> TRUE, v |-> ResponseEnvelope(AnswerOf(t[2]))]
    ELSE IF t = <<"{cX}">> \/ t = <<"{c", "X}">> THEN [ok |-> TRUE, v |-> ObjX]
    ELSE IF t = <<"null">> THEN [ok |-> TRUE, v |-> JNull]
    ELSE [ok |-> FALSE, v |-> Undefined]

----------------------------------------------------------------------------
(* Response bodies: lines, each ended by a newline *)

StreamLines ==
    { <<"{sA", "m1}">>, <<"{s", "m2}">>,
      <<"{r", "X}">>, <<"{r", "null}">>, <<"{r", "e}">>,
      <<"{cX}">>, <<"{cX}", "{cX}">>, <<"null">>, <<"t">> }

RECURSIVE Flatten(_)
Flatten(ls) ==
    IF ls = <<>> THEN <<>> ELSE Head(ls) \o <<NL>> \o Flatten(Tail(ls))

BodiesOf(lines, n) ==
    { Flatten(ls) : ls \in UNION { [1..j -> lines] : j \in 0..n } }

StreamBodies == BodiesOf(StreamLines, MaxLines)
UIBodies ==
    { <<>>,
      Flatten(<< <<"{sA", "m1}">>, <<"t">>, <<"{r", "X}">> >>) }

\* TopicSelector: topic.sampleQuestion
SampleQuestion == <<"sampleQuestion">>

Drafts == { <<>>, <<SP>>, <<"q">> }

----------------------------------------------------------------------------
(* Turns *)

WelcomeText == <<"Welcome to Azure Cosmos DB Support. How can I help you today?">>
ProcessingMarker == "*Processing...*"
ProcessedText == <<"I've processed your request.">>
ApologyText ==
    <<"I'm sorry, there was an error processing your request. Please try again.">>
ConnectText ==
    <<"There was a problem connecting to the server. Please check your connection and try again.">>
NoParseText == <<"Received response but couldn't parse final result">>
CompletedText == <<"Request completed">>

TurnId(prefix, n) == [p |-> prefix, n |-> n]

Turn(id, sender, content) ==
    [id |-> id, sender |-> sender, content |-> content, isTemp |-> FALSE,
     isStatusHistory |-> FALSE, isError |-> FALSE, statusUpdates |-> <<>>]

WelcomeTurn(t) == Turn(TurnId("welcome", t), "system", WelcomeText)

Mounted == messages # <<>>

----------------------------------------------------------------------------
(* ChatProvider.sendMessage: the three callbacks.  A callback works on      *)
(* st = [rq, msgs, typing]: the request's record, the turn list and the     *)
(* typing flag, and returns [st, threw].                                    *)

\* a variant that never shows the agent
FormatStatusBare(u) == ToStr(u.message)

FormatStatus(u) ==
    IF Truthy(u.agent)
    THEN <<"**">> \o ToStr(u.agent) \o <<"**: ">> \o ToStr(u.message)
    ELSE ToStr(u.message)

FormattedStatusUpdates(us) == [i \in 1..Len(us) |-> FormatStatus(us[i])]

TempMessage(cid, us) ==
    [Turn(TurnId("temp", cid), "system",
          Join(FormattedStatusUpdates(us), <<"\n\n">>)
              \o <<"\n\n", ProcessingMarker>>)
     EXCEPT !.isTemp = TRUE, !.statusUpdates = us]

\* a variant that never looks for the existing placeholder
UpsertTempAppend(msgs, temp) == Append(msgs, temp)

\* setMessages(prev => ...) of onChunk: replace the placeholder or append it
UpsertTemp(msgs, temp) ==
    IF \E i \in 1..Len(msgs) : msgs[i].id = temp.id
    THEN [i \in 1..Len(msgs) |-> IF msgs[i].id = temp.id THEN temp ELSE msgs[i]]
    ELSE Append(msgs, temp)

PushStatus(st, update) ==
    LET us == Append(st.rq.ctxStatusUpdates, update) IN
    [st EXCEPT !.rq.ctxStatusUpdates = us,
               !.msgs = UpsertTemp(st.msgs, TempMessage(st.rq.conversationId, us))]

OnChunk(st, chunkData, isJSON) ==
    IF isJSON
    THEN IF Throws(chunkData)
         THEN [st |-> st, threw |-> TRUE]
         ELSE IF Truthy(Get(chunkData, "isStatus"))
         THEN [st |-> PushStatus(st, [agent |-> Get(chunkData, "agent"),
                                      message |-> Get(chunkData, "message")]),
               threw |-> FALSE]
         ELSE [st |-> st, threw |-> FALSE]
    ELSE [st |-> PushStatus(st, [agent |-> JNull, message |-> chunkData]),
          threw |-> FALSE]

\* a variant that always takes the branch that removes the placeholder
FinalizeDropTemp(msgs, cid, finalMessage) ==
    Append(SelectSeq(msgs, LAMBDA m : m.id # TurnId("temp", cid)), finalMessage)

\* setMessages(prev => ...) of onComplete
Finalize(msgs, cid, finalMessage) ==
    IF \E i \in 1..Len(msgs) :
           msgs[i].id = TurnId("status", cid) /\ msgs[i].isStatusHistory
    THEN Append(SelectSeq(msgs, LAMBDA m : m.id # TurnId("temp", cid)),
                finalMessage)
    ELSE Append([i \in 1..Len(msgs) |->
                    IF msgs[i].id = TurnId("temp", cid)
                    THEN [msgs[i] EXCEPT
                             !.id = TurnId("status", cid),
                             !.isTemp = FALSE,
                             !.isStatusHistory = TRUE,
                             !.content = Replace(@, ProcessingMarker)]
                    ELSE msgs[i]],
                finalMessage)

OnComplete(st, finalData) ==
    LET called == [st EXCEPT !.rq.completed = Append(@, finalData)] IN
    IF Throws(finalData)
    THEN [st |-> called, threw |-> TRUE]
    ELSE LET content == IF Truthy(Get(finalData, "content"))
                        THEN ToStr(Get(finalData, "content"))
                        ELSE ProcessedText
             finalMessage ==
                 Turn(TurnId("system", st.rq.conversationId), "system", content)
         IN  [st |-> [called EXCEPT
                         !.msgs = Finalize(@, st.rq.conversationId, finalMessage),
                         !.typing = FALSE],
              threw |-> FALSE]

\* a variant that does not mark the turn as an error
ErrorMessagePlain(cid, text) == Turn(TurnId("system", cid), "system", text)

ErrorMessage(cid, text) ==
    [Turn(TurnId("system", cid), "system", text) EXCEPT !.isError = TRUE]

\* a variant that takes every system turn off the list
OnErrorDropSystem(st) ==
    [st EXCEPT
        !.rq.nError = @ + 1,
        !.msgs = Append(SelectSeq(@, LAMBDA m : m.sender # "system"),
                        ErrorMessage(st.rq.conversationId, ApologyText)),
        !.typing = FALSE]

\* a variant that appends the error turn and leaves the placeholder
OnErrorKeepTemp(st) ==
    [st EXCEPT
        !.rq.nError = @ + 1,
        !.msgs = Append(@, ErrorMessage(st.rq.conversationId, ApologyText)),
        !.typing = FALSE]

OnError(st) ==
    LET cid == st.rq.conversationId IN
    [st EXCEPT
        !.rq.nError = @ + 1,
        !.msgs = Append(SelectSeq(@, LAMBDA m : m.id # TurnId("temp", cid)),
                        ErrorMessage(cid, ApologyText)),
        !.typing = FALSE]

----------------------------------------------------------------------------
(* fetchStreamWithErrorHandling *)

\* the catch of the per-line try: the line is kept as plain text
PlainText(st, line) ==
    OnChunk([st EXCEPT !.rq.statusUpdates = Append(@, JStr(line))],
            JStr(line), FALSE).st

\* the body of the loop over the lines of one delivery
ProcessLine(st, line) ==
    LET p == JSONParse(line) IN
    IF ~p.ok \/ Throws(p.v)
    THEN PlainText(st, line)
    ELSE IF Get(p.v, "type") = JStr(<<"status">>)
    THEN LET st1 == [st EXCEPT !.rq.statusUpdates =
                                   Append(@, Get(p.v, "message"))]
             r == OnChunk(st1, [k |-> "obj", isStatus |-> JTrue,
                                message |-> Get(p.v, "message"),
                                agent |-> Get(p.v, "agent")], TRUE)
         IN  IF r.threw THEN PlainText(r.st, line) ELSE r.st
    ELSE IF Get(p.v, "type") = JStr(<<"response">>)
    THEN LET st1 == [st EXCEPT !.rq.finalResponse = Get(p.v, "final_answer")]
             r == OnChunk(st1, st1.rq.finalResponse, TRUE)
         IN  IF r.threw THEN PlainText(r.st, line) ELSE r.st
    ELSE LET r == OnChunk(st, p.v, TRUE)
         IN  IF r.threw THEN PlainText(r.st, line) ELSE r.st

\* a variant with one try around the whole loop: a failing line ends it
RECURSIVE ProcessLinesAbort(_, _)
ProcessLinesAbort(st, lines) ==
    IF lines = <<>> THEN st
    ELSE IF ~JSONParse(Head(lines)).ok THEN PlainText(st, Head(lines))
    ELSE ProcessLinesAbort(ProcessLine(st, Head(lines)), Tail(lines))

RECURSIVE ProcessLines(_, _)
ProcessLines(st, lines) ==
    IF lines = <<>> THEN st
    ELSE ProcessLines(ProcessLine(st, Head(lines)), Tail(lines))

\* xhr.onprogress with responseText grown to the first n tokens of the body
OnProgress(st, n) ==
    LET newData == SubSeq(st.rq.body, Len(st.rq.receivedData) + 1, n)
        lines == SplitLines(newData)
        st1 == [st EXCEPT !.rq.receivedData = SubSeq(st.rq.body, 1, n),
                          !.rq.seen = @ \o lines,
                          !.rq.whole = @ /\ (st.rq.body[n] = NL
                                                \/ n = Len(st.rq.body))]
    IN  ProcessLines(st1, lines)

\* a variant that joins as the placeholder does, with a blank line
SynthesizedBlankLine(rq) ==
    LET joined == Join([i \in 1..Len(rq.statusUpdates) |->
                           JoinStr(rq.statusUpdates[i])], <<"\n\n">>)
    IN  [k |-> "obj",
         content |-> JStr(IF joined # <<>> THEN joined ELSE CompletedText)]

\* the synthesized result of the catch in xhr.onload
Synthesized(rq) ==
    LET joined == Join([i \in 1..Len(rq.statusUpdates) |->
                           JoinStr(rq.statusUpdates[i])], <<NL>>)
    IN  [k |-> "obj",
         content |-> JStr(IF joined # <<>> THEN joined ELSE CompletedText)]

\* a variant that hands over a captured answer whatever the status is
OnLoadAnswerFirst(st, status) ==
    LET st0 == [st EXCEPT !.rq.phase = "done", !.rq.status = status] IN
    IF Truthy(st0.rq.finalResponse)
    THEN OnComplete(st0, st0.rq.finalResponse).st
    ELSE OnError(st0)

\* xhr.onload
OnLoad(st, status) ==
    LET st0 == [st EXCEPT !.rq.phase = "done", !.rq.status = status] IN
    IF status >= 200 /\ status < 300
    THEN IF Truthy(st0.rq.finalResponse)
         THEN OnComplete(st0, st0.rq.finalResponse).st
         ELSE LET lines == SplitLines(st0.rq.receivedData) IN
              IF Len(lines) > 0
              THEN LET p == JSONParse(lines[Len(lines)]) IN
                   IF ~p.ok
                   THEN OnComplete(st0, Synthesized(st0.rq)).st
                   ELSE LET r == OnComplete(st0, p.v) IN
                        IF r.threw
                        THEN OnComplete(r.st, Synthesized(r.st.rq)).st
                        ELSE r.st
              ELSE OnComplete(st0, [k |-> "obj", content |-> JStr(NoParseText)]).st
    ELSE OnError(st0)

----------------------------------------------------------------------------
(* SettingsProvider and the request body of sendChatMessageStreamed *)

SettingKeys == {"includeDebateDetails", "maxIterations", "darkMode"}

DefaultSettings(dark) ==
    [includeDebateDetails |-> FALSE, maxIterations |-> 10, darkMode |-> dark]

BoolText(b) == IF b THEN "true" ELSE "false"
NumText(n) == ToString(n)
TextValue(t) ==
    CASE t = "true" -> TRUE
      [] t = "false" -> FALSE
      [] OTHER -> CHOOSE n \in 0..99 : NumText(n) = t

\* JSON.stringify(settings)
StringifySettings(s) ==
    <<"includeDebateDetails", BoolText(s.includeDebateDetails),
      "maxIterations", NumText(s.maxIterations),
      "darkMode", BoolText(s.darkMode)>>

\* JSON.parse(savedSettings)
ParseSettings(t) ==
    [key \in {t[i] : i \in {j \in 1..Len(t) : j % 2 = 1}} |->
        TextValue(t[(CHOOSE i \in 1..Len(t) : i % 2 = 1 /\ t[i] = key) + 1])]

\* savedSettings ? JSON.parse(savedSettings) : defaults
SavedOr(item, defaults) ==
    IF Truthy(item) THEN ParseSettings(item.s) ELSE defaults

\* a variant that starts from the defaults instead of the previous object
UpdatedFromDefaults(prev, key, value) ==
    [DefaultSettings(FALSE) EXCEPT ![key] = value]

\* { ...prev, [key]: value }
Updated(prev, key, value) == [prev EXCEPT ![key] = value]

\* a variant that never reads the stored identifier
UserIdFresh(item, fresh) == JStr(fresh)

\* localStorage.getItem('cosmos_user_id') || `user_${...}`
UserId(item, fresh) == IF Truthy(item) THEN item ELSE JStr(fresh)

\* options.f !== undefined ? options.f : settings.f
OptionOr(options, saved, f) ==
    IF f \in DOMAIN options THEN options[f] ELSE saved[f]

\* JSON.stringify({question, user_id, include_debate_details, max_iterations})
RequestBody(message, userId, options, saved) ==
    <<"question">> \o message \o <<"user_id">> \o userId.s
        \o <<"include_debate_details",
             BoolText(OptionOr(options, saved, "includeDebateDetails")),
             "max_iterations",
             NumText(OptionOr(options, saved, "maxIterations"))>>

\* MessageList: the turns that are rendered
FinalMessages(msgs, s) ==
    SelectSeq(msgs, LAMBDA m : ~m.isStatusHistory \/ s.includeDebateDetails)

----------------------------------------------------------------------------
(* State machine *)

NewRequest(cid, content, body) ==
    [conversationId |-> cid, content |-> content, body |-> body,
     receivedData |-> <<>>, finalResponse |-> JNull, statusUpdates |-> <<>>,
     ctxStatusUpdates |-> <<>>, phase |-> "open",
     setup |-> "sent", completed |-> <<>>, nError |-> 0,
     seen |-> <<>>, whole |-> TRUE, status |-> 0, request |-> <<>>]

St(r) == [rq |-> reqs[r], msgs |-> messages, typing |-> isTyping]

Store(r, st) ==
    /\ reqs' = [reqs EXCEPT ![r] = st.rq]
    /\ messages' = st.msgs
    /\ isTyping' = st.typing

Init ==
    /\ messages = <<>>
    /\ isTyping = FALSE
    /\ reqs = <<>>
    /\ now = 0
    /\ calls = 0
    /\ settings = DefaultSettings(FALSE)
    /\ storage = [cosmos_user_id |-> JNull, cosmos_db_settings |-> JNull]
    /\ pendingWrite = TRUE
    /\ drawn = 0

\* the welcome effect of ChatProvider
Mount ==
    /\ messages = <<>>
    /\ messages' = <<WelcomeTurn(now)>>
    /\ UNCHANGED <<isTyping, reqs, now, calls, session>>

\* sendMessage(content) after the test of content.trim(); tick = 1 when the
\* clock has moved on since the last reading, setup tells how far the request
\* got; a failure in sendChatMessageStreamed is raised by localStorage.getItem
\* (stored = FALSE) or by JSON.parse of the saved settings (stored = TRUE)
StartRequest(content, bodies) ==
    /\ \E tick \in (IF reqs = <<>> THEN {1} ELSE {0, 1}),
          setup \in {"sent", "fetchThrows", "streamedThrows"},
          stored \in BOOLEAN :
       \E body \in (IF setup = "sent" THEN bodies ELSE {<<>>}) :
          LET cid == now + tick
              userMessage == Turn(TurnId("user", cid), "user", content)
              fresh == <<"user_", ToString(drawn + 1)>>
              userId == UserId(storage.cosmos_user_id, fresh)
              options == [includeDebateDetails |-> settings.includeDebateDetails,
                          maxIterations |-> settings.maxIterations]
              saved == SavedOr(storage.cosmos_db_settings, DefaultSettings(FALSE))
              rq == [NewRequest(cid, content, body) EXCEPT
                        !.setup = setup,
                        !.request = IF setup = "sent"
                                    THEN RequestBody(content, userId, options, saved)
                                    ELSE <<>>]
              st == [rq |-> rq, msgs |-> Append(messages, userMessage),
                     typing |-> TRUE]
              st1 == CASE setup = "sent" -> st
                       [] setup = "fetchThrows" ->
                              OnError([st EXCEPT !.rq.phase = "done"])
                       [] OTHER ->
                              [st EXCEPT
                                  !.rq.phase = "done",
                                  !.msgs = Append(@, ErrorMessage(cid, ConnectText)),
                                  !.typing = FALSE]
          IN  /\ setup # "streamedThrows" => stored
              /\ now' = cid
              /\ reqs' = Append(reqs, st1.rq)
              /\ messages' = st1.msgs
              /\ isTyping' = st1.typing
              /\ drawn' = IF Truthy(storage.cosmos_user_id) \/ ~stored
                          THEN drawn
                          ELSE drawn + 1
              /\ storage' = IF stored
                            THEN [storage EXCEPT !.cosmos_user_id = userId]
                            ELSE storage
              /\ UNCHANGED <<settings, pendingWrite>>

\* a variant without the early return for blank content
SendMessageUnchecked(content, limit, bodies) ==
    /\ Len(reqs) < limit
    /\ calls' = calls + 1
    /\ StartRequest(content, bodies)

\* sendMessage(content): nothing happens when content.trim() is empty
SendMessage(content, limit, bodies) ==
    /\ Trim(content) # <<>> => Len(reqs) < limit
    /\ calls' = calls + 1
    /\ IF Trim(content) = <<>>
       THEN UNCHANGED <<messages, isTyping, reqs, now, session>>
       ELSE StartRequest(content, bodies)

\* a variant that refuses to submit while the typing flag is set
HandleSendWhenIdle(v, limit, bodies) ==
    /\ Mounted
    /\ ~isTyping
    /\ Trim(v) # <<>>
    /\ SendMessage(v, limit, bodies)

\* MainChat.handleSend with the text v in the input field
HandleSend(v, limit, bodies) ==
    /\ Mounted
    /\ Trim(v) # <<>>
    /\ SendMessage(v, limit, bodies)

\* a consumer of the chat context calls sendMessage with any text
CallSendMessage(v, limit, bodies) ==
    /\ Mounted
    /\ calls < MaxCalls
    /\ SendMessage(v, limit, bodies)

\* TopicSelector.handleTopicClick: the timeout callback
TopicTimeout(limit, bodies) ==
    /\ Mounted
    /\ SendMessage(SampleQuestion, limit, bodies)

\* a progress event of request r
Progress(r, wholeLinesOnly) ==
    /\ reqs[r].phase = "open"
    /\ \E n \in (Len(reqs[r].receivedData) + 1)..Len(reqs[r].body) :
          /\ wholeLinesOnly => reqs[r].body[n] = NL
          /\ Store(r, OnProgress(St(r), n))
    /\ UNCHANGED <<now, calls, session>>

\* the load event of request r: the last progress event came before it
Load(r, statuses) ==
    /\ reqs[r].phase = "open"
    /\ reqs[r].receivedData = reqs[r].body
    /\ \E status \in statuses : Store(r, OnLoad(St(r), status))
    /\ UNCHANGED <<now, calls, session>>

\* a variant that reports the error and opens the request again
NetworkErrorRetry(r) ==
    /\ reqs[r].phase = "open"
    /\ reqs[r].nError = 0
    /\ Store(r, OnError([St(r) EXCEPT !.rq.receivedData = <<>>]))
    /\ UNCHANGED <<now, calls, session>>

\* the error event of request r
NetworkError(r) ==
    /\ reqs[r].phase = "open"
    /\ Store(r, OnError([St(r) EXCEPT !.rq.phase = "done"]))
    /\ UNCHANGED <<now, calls, session>>

\* ChatProvider.clearChat
ClearChat ==
    /\ Mounted
    /\ messages' = <<WelcomeTurn(now)>>
    /\ UNCHANGED <<isTyping, reqs, now, calls, session>>

\* updateSetting(key, value)
UpdateSetting(key, value) ==
    /\ settings' = Updated(settings, key, value)
    /\ pendingWrite' = TRUE
    /\ UNCHANGED <<messages, isTyping, reqs, now, calls, storage, drawn>>

ToggleDarkMode == UpdateSetting("darkMode", ~settings.darkMode)

ToggleDebateDetails ==
    UpdateSetting("includeDebateDetails", ~settings.includeDebateDetails)

SetMaxIterations(value) == UpdateSetting("maxIterations", value)

\* the effect of SettingsProvider that saves the settings
WriteBack ==
    /\ pendingWrite
    /\ storage' = [storage EXCEPT
                      !.cosmos_db_settings = JStr(StringifySettings(settings))]
    /\ pendingWrite' = FALSE
    /\ UNCHANGED <<messages, isTyping, reqs, now, calls, settings, drawn>>

Requests == 1..Len(reqs)

\* the chat: several requests, whole-line deliveries of short bodies
Next ==
    \/ Mount
    \/ \E v \in Drafts : HandleSend(v, MaxRequests, UIBodies)
    \/ \E r \in Requests : Progress(r, TRUE)
    \/ \E r \in Requests : Load(r, {200, 500})
    \/ \E r \in Requests : NetworkError(r)
    \/ ClearChat

Spec == Init /\ [][Next]_vars

\* one request: any body, cut into deliveries at any point
NextStream ==
    \/ Mount
    \/ TopicTimeout(1, StreamBodies)
    \/ \E r \in Requests : Progress(r, FALSE)
    \/ \E r \in Requests : Load(r, {199, 200, 299, 300})
    \/ \E r \in Requests : NetworkError(r)

SpecStream == Init /\ [][NextStream]_vars

\* values a caller may give a setting
IterationValues == {5, 10}
SettingValues(key) == IF key = "maxIterations" THEN IterationValues ELSE BOOLEAN

SessionBodies == { Flatten(<< <<"{sA", "m1}">>, <<"{r", "X}">> >>) }

\* what a page load may find in localStorage
StoredSessions ==
    { [cosmos_user_id |-> JNull, cosmos_db_settings |-> JNull],
      [cosmos_user_id |-> JStr(<<"user_", "0">>),
       cosmos_db_settings |->
           JStr(StringifySettings([includeDebateDetails |-> TRUE,
                                   maxIterations |-> 5,
                                   darkMode |-> FALSE]))] }

\* a page load: the settings come from localStorage or the defaults
InitSession ==
    /\ messages = <<>>
    /\ isTyping = FALSE
    /\ reqs = <<>>
    /\ now = 0
    /\ calls = 0
    /\ storage \in StoredSessions
    /\ \E dark \in BOOLEAN :
          settings = SavedOr(storage.cosmos_db_settings, DefaultSettings(dark))
    /\ pendingWrite = TRUE
    /\ drawn = 0

\* the session: settings changes between the requests of one chat
NextSession ==
    \/ Mount
    \/ \E v \in Drafts : HandleSend(v, 2, SessionBodies)
    \/ \E r \in Requests : Progress(r, TRUE)
    \/ \E r \in Requests : Load(r, {200})
    \/ ToggleDebateDetails
    \/ \E value \in IterationValues : SetMaxIterations(value)
    \/ WriteBack

SpecSession == InitSession /\ [][NextSession]_vars

\* the settings alone: every function the SettingsProvider hands out
NextSettings ==
    \/ Mount
    \/ \E key \in SettingKeys : \E value \in SettingValues(key) :
           UpdateSetting(key, value)
    \/ ToggleDarkMode
    \/ ToggleDebateDetails
    \/ \E value \in IterationValues : SetMaxIterations(value)
    \/ WriteBack

SpecSettings == InitSession /\ [][NextSettings]_vars

\* the chat context: sendMessage and clearChat called by any consumer
NextProvider ==
    \/ Mount
    \/ \E v \in Drafts : CallSendMessage(v, 2, UIBodies)
    \/ \E r \in Requests : Progress(r, TRUE)
    \/ \E r \in Requests : Load(r, {200, 500})
    \/ \E r \in Requests : NetworkError(r)
    \/ ClearChat

SpecProvider == Init /\ [][NextProvider]_vars

\* the lines the relay stub sends before its answer
RelayLines ==
    << <<"Our Cosmos DB specialists ", "are working on your request...">>,
       <<"Analyzing your requirements...">>,
       <<"Evaluating data modeling options...">>,
       <<"Preparing recommendations...">> >>

\* JSON.stringify(finalResponse) of the relay stub, sent without a newline
RelayAnswer == <<"{c", "X}">>

\* the body of the relay stub, and the bodies of relays with fewer lines
RelayBodies ==
    { Flatten(SubSeq(RelayLines, 1, n)) \o RelayAnswer :
          n \in 0..Len(RelayLines) }

\* one request answered by the relay stub, cut into deliveries at any point
NextRelay ==
    \/ Mount
    \/ TopicTimeout(1, RelayBodies)
    \/ \E r \in Requests : Progress(r, FALSE)
    \/ \E r \in Requests : Load(r, {200})
    \/ \E r \in Requests : NetworkError(r)

SpecRelay == Init /\ [][NextRelay]_vars

----------------------------------------------------------------------------
(* Vocabulary of the properties *)

IsStatusLine(l) ==
    LET p == JSONParse(l) IN
    p.ok /\ ~Throws(p.v) /\ Get(p.v, "type") = JStr(<<"status">>)

IsResponseLine(l) ==
    LET p == JSONParse(l) IN
    p.ok /\ ~Throws(p.v) /\ Get(p.v, "type") = JStr(<<"response">>)

Malformed(l) == ~JSONParse(l).ok

UpdateOfLine(l) ==
    [agent |-> Get(JSONParse(l).v, "agent"),
     message |-> Get(JSONParse(l).v, "message")]

AnswerOfLine(l) == Get(JSONParse(l).v, "final_answer")

\* the StatusUpdates that status envelopes and malformed lines stand for
RECURSIVE StatusLike(_)
StatusLike(ls) ==
    IF ls = <<>> THEN <<>>
    ELSE (IF IsStatusLine(Head(ls)) THEN <<UpdateOfLine(Head(ls))>>
          ELSE IF Malformed(Head(ls))
          THEN <<[agent |-> JNull, message |-> JStr(Head(ls))]>>
          ELSE <<>>) \o StatusLike(Tail(ls))

MessagesOf(us) == [i \in 1..Len(us) |-> us[i].message]
TextsOf(us) == [i \in 1..Len(us) |-> ToStr(us[i].message)]

\* the final_answer of the last response envelope among ls, null if none
RECURSIVE LastAnswer(_)
LastAnswer(ls) ==
    IF ls = <<>> THEN JNull
    ELSE IF IsResponseLine(ls[Len(ls)]) THEN AnswerOfLine(ls[Len(ls)])
    ELSE LastAnswer(SubSeq(ls, 1, Len(ls) - 1))

ResponseSeen(r) == \E i \in 1..Len(reqs[r].seen) : IsResponseLine(reqs[r].seen[i])

\* a line on which the classifier or the chunk callback raises a TypeError
ThrowingLine(l) ==
    LET p == JSONParse(l) IN
    p.ok /\ (Throws(p.v) \/ (IsResponseLine(l) /\ Throws(AnswerOfLine(l))))

Sent(r) == reqs[r].setup = "sent"
Outstanding(r) == reqs[r].phase = "open"
Succeeded(r) == Sent(r) /\ reqs[r].phase = "done" /\ reqs[r].nError = 0

Cid(r) == reqs[r].conversationId
TurnsWithId(id) == {i \in 1..Len(messages) : messages[i].id = id}
Placeholders(cid) ==
    {i \in 1..Len(messages) : messages[i].isTemp /\ messages[i].id.n = cid}

BodyLines(r) == SplitLines(reqs[r].body)

----------------------------------------------------------------------------
(* C1 *)

\* C1: once the whole body has been received, the lines handed to the
\* classifier are the lines of the body, as one delivery of the whole body
\* would give them, whatever the cuts between the deliveries were.
C1_SplitInvariance ==
    \A r \in Requests :
        reqs[r].receivedData = reqs[r].body => reqs[r].seen = BodyLines(r)

----------------------------------------------------------------------------
(* C2 *)

\* the stream of C2: n status envelopes, then response {content: X}, in whole
\* lines, ended by a successful completion
C2Case(r) ==
    /\ Succeeded(r)
    /\ reqs[r].whole
    /\ BodyLines(r) # <<>>
    /\ BodyLines(r)[Len(BodyLines(r))] = <<"{r", "X}">>
    /\ \A i \in 1..(Len(BodyLines(r)) - 1) : IsStatusLine(BodyLines(r)[i])

C2Updates(r) ==
    [i \in 1..(Len(BodyLines(r)) - 1) |-> UpdateOfLine(BodyLines(r)[i])]

C2Final(r) ==
    /\ messages[Len(messages)].id = TurnId("system", Cid(r))
    /\ messages[Len(messages)].content = <<"X">>
    /\ ~messages[Len(messages)].isError
    /\ ~messages[Len(messages)].isTemp
    /\ Cardinality(TurnsWithId(TurnId("system", Cid(r)))) = 1

C2History(r) ==
    /\ Cardinality(TurnsWithId(TurnId("status", Cid(r)))) = 1
    /\ TurnsWithId(TurnId("temp", Cid(r))) = {}
    /\ \A i \in TurnsWithId(TurnId("status", Cid(r))) :
          /\ i < Len(messages)
          /\ messages[i].isStatusHistory
          /\ ~messages[i].isTemp
          /\ messages[i].statusUpdates = C2Updates(r)

\* C2 as stated: for every n >= 0 the list ends with the one final turn X,
\* and exactly one history turn holding the n updates precedes it.
C2_HistoryForEveryN ==
    \A r \in Requests : C2Case(r) => C2Final(r) /\ C2History(r)

\* C2 as amended: the list ends with the one final turn X; for n >= 1 exactly
\* one history turn holding the n updates in order precedes it, and for
\* n = 0 the request has no history turn.
C2_HistoryWhenStatusSeen ==
    \A r \in Requests :
        C2Case(r) =>
            /\ C2Final(r)
            /\ IF Len(BodyLines(r)) > 1
               THEN C2History(r)
               ELSE /\ TurnsWithId(TurnId("status", Cid(r))) = {}
                    /\ TurnsWithId(TurnId("temp", Cid(r))) = {}

C2_Witness ==
    \E r \in Requests :
        /\ C2Case(r)
        /\ Len(BodyLines(r)) = 3
        /\ C2Updates(r)[1] # C2Updates(r)[2]

----------------------------------------------------------------------------
(* C3 *)

\* C3: when a response envelope was classified and the load is a success,
\* onComplete is called once, with that envelope's final_answer.
C3_CapturedAnswerIsResult ==
    \A r \in Requests :
        (Succeeded(r) /\ ResponseSeen(r)) =>
            reqs[r].completed = <<LastAnswer(reqs[r].seen)>>

----------------------------------------------------------------------------
(* C4 *)

\* the stream of C4: status envelopes only, then a last line that is not
\* JSON, ended by a successful completion
C4Case(r) ==
    /\ Succeeded(r)
    /\ BodyLines(r) # <<>>
    /\ Malformed(BodyLines(r)[Len(BodyLines(r))])
    /\ \A i \in 1..(Len(BodyLines(r)) - 1) : IsStatusLine(BodyLines(r)[i])

C4Envelopes(r) == SubSeq(BodyLines(r), 1, Len(BodyLines(r)) - 1)

FinalContent(r) == messages[Len(messages)].content

\* C4 as stated, for whole-line deliveries: the content is the messages of
\* the status envelopes joined by a newline, or the fallback phrase when
\* there is no status envelope.
C4_ContentIsEnvelopeMessages ==
    \A r \in Requests :
        (C4Case(r) /\ reqs[r].whole) =>
            FinalContent(r) =
                (IF C4Envelopes(r) # <<>>
                 THEN Join(TextsOf(StatusLike(C4Envelopes(r))), <<NL>>)
                 ELSE CompletedText)

\* C4 as amended: the content is the newline-join, in order, of the message
\* of every status envelope and the raw text of every unparsable line handed
\* to the classifier, the unparsable last line included when it came in one
\* piece; the fallback phrase stands in only for an empty join.
C4_ContentIsRecordedMessages ==
    \A r \in Requests :
        C4Case(r) =>
            /\ messages[Len(messages)].id = TurnId("system", Cid(r))
            /\ FinalContent(r) =
                  (IF Join(TextsOf(StatusLike(reqs[r].seen)), <<NL>>) # <<>>
                   THEN Join(TextsOf(StatusLike(reqs[r].seen)), <<NL>>)
                   ELSE CompletedText)
            /\ reqs[r].whole =>
                  FinalContent(r) =
                      Join(TextsOf(StatusLike(BodyLines(r))), <<NL>>)

C4_Witness ==
    \E r \in Requests :
        /\ C4Case(r)
        /\ reqs[r].whole
        /\ Len(C4Envelopes(r)) = 2
        /\ FinalContent(r) = <<"m1", NL, "m2", NL, "t">>

----------------------------------------------------------------------------
(* C5 *)

ErrorStep(r) ==
    /\ r \in DOMAIN reqs'
    /\ reqs'[r].nError > (IF r \in DOMAIN reqs THEN reqs[r].nError ELSE 0)

\* the turn list onError finds: for a setup error the user turn is on it
PriorTurns(r) ==
    IF r \in DOMAIN reqs THEN messages
    ELSE Append(messages, Turn(TurnId("user", reqs'[r].conversationId),
                               "user", reqs'[r].content))

KeptTurns(r) ==
    SelectSeq(PriorTurns(r),
              LAMBDA m : m.id # TurnId("temp", reqs'[r].conversationId))

\* C5: the error callback takes the request's placeholder off the list,
\* appends one error turn with the apology text and leaves every other turn
\* as it was, in the same order, however many status updates came before.
C5_ErrorReplacesPlaceholder ==
    [][\A r \in 1..(Len(reqs) + 1) :
          ErrorStep(r) =>
              /\ reqs'[r].nError = 1
              /\ Len(PriorTurns(r)) - Len(KeptTurns(r)) \in {0, 1}
              /\ \A i \in 1..Len(messages') :
                     messages'[i].id # TurnId("temp", reqs'[r].conversationId)
              /\ Len(messages') = Len(KeptTurns(r)) + 1
              /\ SubSeq(messages', 1, Len(KeptTurns(r))) = KeptTurns(r)
              /\ messages'[Len(messages')] =
                     ErrorMessage(reqs'[r].conversationId, ApologyText)]_vars

C5_Witness ==
    \E r \in Requests :
        /\ Sent(r)
        /\ reqs[r].nError = 1
        /\ Len(reqs[r].ctxStatusUpdates) = 2
        /\ messages[Len(messages)] = ErrorMessage(Cid(r), ApologyText)
        /\ TurnsWithId(TurnId("temp", Cid(r))) = {}

----------------------------------------------------------------------------
(* C6 *)

AtMostOnePlaceholder ==
    /\ \A r \in Requests : Cardinality(Placeholders(Cid(r))) <= 1
    /\ \A i \in 1..Len(messages) :
          messages[i].isTemp =>
              \E r \in Requests : messages[i].id = TurnId("temp", Cid(r))

StatusStep(r) ==
    Len(reqs'[r].ctxStatusUpdates) > Len(reqs[r].ctxStatusUpdates)

ReplacedOrAppended(r) ==
    IF TurnsWithId(TurnId("temp", Cid(r))) # {}
    THEN /\ Len(messages') = Len(messages)
         /\ \A i \in 1..Len(messages) :
               IF messages[i].id = TurnId("temp", Cid(r))
               THEN messages'[i] =
                        TempMessage(Cid(r), reqs'[r].ctxStatusUpdates)
               ELSE messages'[i] = messages[i]
    ELSE messages' =
             Append(messages, TempMessage(Cid(r), reqs'[r].ctxStatusUpdates))

\* C6: the list never holds two placeholders of one request, and a status
\* update replaces the request's placeholder where it stands or, when there
\* is none, appends one.
C6_OnePlaceholderPerRequest ==
    /\ []AtMostOnePlaceholder
    /\ [][\A r \in DOMAIN reqs : StatusStep(r) => ReplacedOrAppended(r)]_vars

C6_Witness ==
    \E i, j \in 1..Len(messages) :
        /\ i # j
        /\ messages[i].isTemp /\ messages[j].isTemp
        /\ Len(messages[i].statusUpdates) = 2

----------------------------------------------------------------------------
(* C7 *)

\* C7: a request that reached fetchStreamWithErrorHandling has had at most
\* one terminal callback, and exactly one once the transport has ended;
\* onComplete and onError are never both called, nor either one twice.
C7_OneTerminalCallback ==
    \A r \in Requests :
        reqs[r].setup # "streamedThrows" =>
            /\ Len(reqs[r].completed) + reqs[r].nError <= 1
            /\ reqs[r].phase = "done" =>
                  Len(reqs[r].completed) + reqs[r].nError = 1

----------------------------------------------------------------------------
(* C8 *)

\* C8: a line that fails JSON parsing is kept as a plain-text StatusUpdate
\* (agent null, message the raw line) and ends nothing: the status lists and
\* the pending result are those of all the lines handed over so far, the
\* malformed ones counted as status lines, and the placeholder shows them.
C8_MalformedLineIsPlainStatus ==
    \A r \in Requests :
        (Sent(r) /\ \A i \in 1..Len(reqs[r].seen) : ~ThrowingLine(reqs[r].seen[i]))
        =>  /\ reqs[r].ctxStatusUpdates = StatusLike(reqs[r].seen)
            /\ reqs[r].statusUpdates = MessagesOf(StatusLike(reqs[r].seen))
            /\ reqs[r].finalResponse = LastAnswer(reqs[r].seen)
            /\ (Outstanding(r) /\ reqs[r].ctxStatusUpdates # <<>>) =>
                  \E i \in 1..Len(messages) :
                      messages[i] =
                          TempMessage(Cid(r), reqs[r].ctxStatusUpdates)

C8_Witness ==
    \E r \in Requests :
        /\ Outstanding(r)
        /\ Len(reqs[r].seen) = 3
        /\ Malformed(reqs[r].seen[1])
        /\ IsStatusLine(reqs[r].seen[2])
        /\ reqs[r].seen[3] = <<"{r", "X}">>
        /\ reqs[r].receivedData = reqs[r].body
        /\ reqs[r].ctxStatusUpdates =
               <<[agent |-> JNull, message |-> JStr(reqs[r].seen[1])],
                 UpdateOfLine(reqs[r].seen[2])>>

----------------------------------------------------------------------------
(* C9 *)

NewLines(r) == SubSeq(reqs'[r].seen, Len(reqs[r].seen) + 1, Len(reqs'[r].seen))

\* C9: a delivery that holds response envelopes only adds no StatusUpdate to
\* either status list and leaves the turn list, the placeholder with it, as
\* it was.
C9_ResponseIsOnlyCaptured ==
    [][\A r \in DOMAIN reqs :
          (/\ NewLines(r) # <<>>
           /\ \A i \in 1..Len(NewLines(r)) : IsResponseLine(NewLines(r)[i]))
          =>  /\ reqs'[r].statusUpdates = reqs[r].statusUpdates
              /\ reqs'[r].ctxStatusUpdates = reqs[r].ctxStatusUpdates
              /\ messages' = messages]_vars

----------------------------------------------------------------------------
(* C10 *)

\* C10 as stated: at most one request is outstanding at any time.
C10_OneRequestInFlight ==
    Cardinality({r \in Requests : Outstanding(r)}) <= 1

\* C10 as amended: the UI refuses a submission only when the text of the
\* input field is blank; a submission of non-blank text starts sendMessage
\* also while other requests are outstanding.
C10_SubmitRefusedOnlyWhenBlank ==
    (Mounted /\ Len(reqs) < MaxRequests) =>
        \A v \in Drafts :
            (ENABLED HandleSend(v, MaxRequests, UIBodies)) <=> (Trim(v) # <<>>)

C10_Witness ==
    \E r1, r2 \in Requests :
        /\ r1 < r2
        /\ Outstanding(r1) /\ Outstanding(r2)
        /\ isTyping

----------------------------------------------------------------------------
(* C11 *)

\* the load event of request r came with a status outside 200..299
LoadedNon2xx(r) ==
    /\ Sent(r)
    /\ reqs[r].phase = "done"
    /\ reqs[r].status # 0
    /\ ~(reqs[r].status >= 200 /\ reqs[r].status < 300)

\* C11: after a load with a status outside 200..299 the request has had
\* onError once and onComplete never, whatever was classified while
\* streaming; the list ends with the apology error turn and holds no final
\* turn of the request.
C11_Non2xxIsError ==
    \A r \in Requests :
        LoadedNon2xx(r) =>
            /\ reqs[r].completed = <<>>
            /\ reqs[r].nError = 1
            /\ messages[Len(messages)] = ErrorMessage(Cid(r), ApologyText)
            /\ \A i \in 1..Len(messages) :
                  messages[i].id = TurnId("system", Cid(r)) =>
                      /\ messages[i].isError
                      /\ i = Len(messages)

C11_Witness ==
    \E r \in Requests :
        /\ LoadedNon2xx(r)
        /\ reqs[r].status = 300
        /\ reqs[r].finalResponse = ObjX
        /\ Len(reqs[r].ctxStatusUpdates) = 2

----------------------------------------------------------------------------
(* C12 *)

\* a sendMessage call that failed before the request was sent
SetupErrorStep ==
    /\ Len(reqs') = Len(reqs) + 1
    /\ reqs'[Len(reqs')].setup # "sent"

NewCid == reqs'[Len(reqs')].conversationId

IsErrorTurn(m, cid, text) ==
    /\ m.id = TurnId("system", cid)
    /\ m.sender = "system"
    /\ m.isError
    /\ ~m.isTemp
    /\ m.content = text

\* the step adds the user turn and then one error turn with the given text
AddsUserAndError(text) ==
    LET n == Len(messages') IN
    /\ n >= 2
    /\ messages'[n - 1] = Turn(TurnId("user", NewCid), "user", reqs'[Len(reqs')].content)
    /\ IsErrorTurn(messages'[n], NewCid, text)
    /\ SubSeq(messages', 1, n - 2) =
           (IF reqs'[Len(reqs')].setup = "fetchThrows"
            THEN SelectSeq(messages, LAMBDA m : m.id # TurnId("temp", NewCid))
            ELSE messages)
    /\ ~isTyping'

\* C12 as stated: every setup error ends with the user turn followed by one
\* error turn that holds the apology text of a transport error, and with
\* isTyping false.
C12_SetupErrorShowsApology ==
    [][SetupErrorStep => AddsUserAndError(ApologyText)]_vars

\* C12 as amended: every setup error ends with the user turn followed by
\* one error turn and with isTyping false; the turn holds the apology text
\* when the exception was raised inside fetchStreamWithErrorHandling and the
\* connection-problem text when it was raised in sendChatMessageStreamed.
C12_SetupErrorShowsItsText ==
    [][SetupErrorStep =>
          AddsUserAndError(IF reqs'[Len(reqs')].setup = "fetchThrows"
                           THEN ApologyText ELSE ConnectText)]_vars

C12_Witness ==
    \E r \in Requests :
        /\ reqs[r].setup = "streamedThrows"
        /\ IsErrorTurn(messages[Len(messages)], Cid(r), ConnectText)
        /\ \E q \in Requests : reqs[q].setup = "fetchThrows"
        /\ ~isTyping

----------------------------------------------------------------------------
(* C13 *)

\* the load event of request r with a status outside 200..299
Non2xxLoadStep(r) ==
    /\ reqs[r].phase = "open"
    /\ reqs'[r].phase = "done"
    /\ reqs'[r].status # 0
    /\ ~(reqs'[r].status >= 200 /\ reqs'[r].status < 300)

\* the turn shows a line of the response body of request r as it came
ShowsRawLine(m, r) ==
    \E i \in 1..Len(m.statusUpdates) : \E j \in 1..Len(reqs[r].seen) :
        /\ m.statusUpdates[i] = [agent |-> JNull, message |-> JStr(reqs[r].seen[j])]
        /\ Malformed(reqs[r].seen[j])

\* C13: while a request that ends with a non-success response is under way,
\* no turn of the list holds text of that response's body.
C13_NoRawBodyText ==
    [][\A r \in DOMAIN reqs :
          Non2xxLoadStep(r) =>
              \A i \in 1..Len(messages) : ~ShowsRawLine(messages[i], r)]_vars

----------------------------------------------------------------------------
(* C14 *)

\* request r has had a terminal callback
Terminated(r) == reqs[r].nError + Len(reqs[r].completed) > 0

\* the step is a sendMessage call: it appends the user turn of a new request
SendStep ==
    /\ Len(reqs') = Len(reqs) + 1
    /\ SubSeq(reqs', 1, Len(reqs)) = reqs
    /\ \E i \in 1..Len(messages') :
          messages'[i] = Turn(TurnId("user", NewCid), "user",
                              reqs'[Len(reqs')].content)
    /\ Trim(reqs'[Len(reqs')].content) # <<>>
    /\ reqs'[Len(reqs')].setup = "sent" =>
          /\ reqs'[Len(reqs')].request # <<>>
          /\ reqs'[Len(reqs')].phase = "open"

----------------------------------------------------------------------------
(* C15 *)

\* request f ended in an error before this step
Failed(f) == reqs[f].nError > 0 \/ reqs[f].setup = "streamedThrows"

\* C15: when sendMessage is called after a request ended in error, the list
\* holds no placeholder of the failed request, and the new request starts
\* with empty StatusUpdate lists and a placeholder id of its own.
C15_ResubmitStartsClean ==
    [][\A f \in DOMAIN reqs :
          (Failed(f) /\ Len(reqs') = Len(reqs) + 1) =>
              /\ \A i \in 1..Len(messages) :
                    messages[i].id # TurnId("temp", Cid(f))
              /\ reqs'[Len(reqs')].ctxStatusUpdates = <<>>
              /\ reqs'[Len(reqs')].statusUpdates = <<>>
              /\ TurnId("temp", NewCid) # TurnId("temp", Cid(f))]_vars

----------------------------------------------------------------------------
(* C16 *)

\* C16: once a request has had its terminal callback, the list holds no
\* turn with isTemp = true for that request.
C16_NoDanglingPlaceholder ==
    \A r \in Requests :
        (Sent(r) /\ Terminated(r)) => Placeholders(Cid(r)) = {}

----------------------------------------------------------------------------
(* C17 *)

\* onComplete of request r ran to its end in this step
CompletionStep(r) ==
    /\ r \in DOMAIN reqs'
    /\ Len(reqs'[r].completed) > Len(reqs[r].completed)
    /\ ~Throws(reqs'[r].completed[Len(reqs'[r].completed)])

HasTurn(msgs, id) == \E i \in 1..Len(msgs) : msgs[i].id = id

IsHistoryOf(m, r) ==
    /\ m.id = TurnId("status", Cid(r))
    /\ m.isStatusHistory
    /\ ~m.isTemp

\* C17 as stated: at finalization with retention disabled the placeholder is
\* discarded and no history turn of the request is kept; with retention
\* enabled the placeholder becomes one permanent history turn.
C17_DiscardedWhenDisabled ==
    [][\A r \in DOMAIN reqs :
          (CompletionStep(r) /\ HasTurn(messages, TurnId("temp", Cid(r)))) =>
              /\ ~HasTurn(messages', TurnId("temp", Cid(r)))
              /\ IF settings.includeDebateDetails
                 THEN \E i \in 1..Len(messages') : IsHistoryOf(messages'[i], r)
                 ELSE ~HasTurn(messages', TurnId("status", Cid(r)))]_vars

\* C17 as amended: finalization does not depend on the retention setting:
\* the placeholder always leaves the list as a placeholder and one permanent
\* history turn of the request is kept in the list, with the placeholder's
\* StatusUpdates when it is the placeholder converted; the setting decides
\* only whether the rendered list shows history turns.
C17_RetentionActsAtRendering ==
    /\ [][\A r \in DOMAIN reqs :
             (CompletionStep(r) /\ HasTurn(messages, TurnId("temp", Cid(r)))) =>
                 /\ ~HasTurn(messages', TurnId("temp", Cid(r)))
                 /\ Cardinality({i \in 1..Len(messages') :
                                    IsHistoryOf(messages'[i], r)}) = 1
                 /\ ~HasTurn(messages, TurnId("status", Cid(r))) =>
                       \A i \in 1..Len(messages) :
                           messages[i].id = TurnId("temp", Cid(r)) =>
                               /\ IsHistoryOf(messages'[i], r)
                               /\ messages'[i].statusUpdates =
                                      messages[i].statusUpdates]_vars
    /\ [](\A i \in 1..Len(messages) :
             messages[i].isStatusHistory =>
                 ((\E j \in 1..Len(FinalMessages(messages, settings)) :
                      FinalMessages(messages, settings)[j] = messages[i])
                  <=> settings.includeDebateDetails))

C17_Witness ==
    \E r \in Requests :
        /\ Succeeded(r)
        /\ ~settings.includeDebateDetails
        /\ reqs[r].request[Len(reqs[r].request) - 2] = "false"
        /\ \E i \in 1..Len(messages) :
              /\ IsHistoryOf(messages[i], r)
              /\ messages[i].statusUpdates = reqs[r].ctxStatusUpdates
        /\ Len(FinalMessages(messages, settings)) < Len(messages)

----------------------------------------------------------------------------
(* C18 *)

\* C18: no two turns of the list have the same id.
C18_TurnIdsUnique ==
    \A i, j \in 1..Len(messages) : messages[i].id = messages[j].id => i = j

----------------------------------------------------------------------------
(* C19 *)

\* the text of a request body with the given values
BodyText(question, uid, include, iterations) ==
    <<"question">> \o question \o <<"user_id">> \o uid
        \o <<"include_debate_details", BoolText(include),
             "max_iterations", NumText(iterations)>>

\* a sendMessage call that sent its request
SentStep == Len(reqs') = Len(reqs) + 1 /\ reqs'[Len(reqs')].setup = "sent"

----------------------------------------------------------------------------
(* C20 *)

Persisted == storage.cosmos_db_settings

OnlyKeyChanged(key, value) ==
    /\ DOMAIN settings' = DOMAIN settings
    /\ settings'[key] = value
    /\ \A k \in DOMAIN settings : k # key => settings'[k] = settings[k]

\* C20: once the write-back has run, the settings read back from
\* localStorage are the in-memory settings; updateSetting and
\* setMaxIterations set the one key they name, a toggle flips its flag, and
\* every other key keeps its value.
C20_SettingsWrittenBack ==
    /\ [](~pendingWrite =>
             /\ Truthy(Persisted)
             /\ ParseSettings(Persisted.s) = settings)
    /\ [][/\ \A key \in SettingKeys : \A value \in SettingValues(key) :
                UpdateSetting(key, value) => OnlyKeyChanged(key, value)
          /\ ToggleDarkMode => OnlyKeyChanged("darkMode", ~settings.darkMode)
          /\ ToggleDebateDetails =>
                OnlyKeyChanged("includeDebateDetails",
                               ~settings.includeDebateDetails)
          /\ \A value \in IterationValues :
                SetMaxIterations(value) => OnlyKeyChanged("maxIterations", value)
          /\ settings' # settings => pendingWrite']_vars

C20_Witness ==
    /\ ~pendingWrite
    /\ settings = [includeDebateDetails |-> TRUE, maxIterations |-> 5,
                   darkMode |-> TRUE]
    /\ Persisted = JStr(<<"includeDebateDetails", "true", "maxIterations", "5",
                          "darkMode", "true">>)
    /\ storage.cosmos_user_id = JNull

----------------------------------------------------------------------------
(* C21 *)

\* a line that parses as JSON and is neither a status nor a response envelope
UnknownTypeLine(l) == JSONParse(l).ok /\ ~IsStatusLine(l) /\ ~IsResponseLine(l)

\* the chunk callback called with the parsed value of each line in turn
RECURSIVE PassedThrough(_, _)
PassedThrough(st, lines) ==
    IF lines = <<>> THEN st
    ELSE PassedThrough(OnChunk(st, JSONParse(Head(lines)).v, TRUE).st,
                       Tail(lines))

\* C21: a delivery whose lines all parse as JSON with a type that is neither
\* "status" nor "response" has the effect of the chunk callback called with
\* each parsed value, and no other: the pending final result stays as it
\* was and the request stays open.
C21_UnknownTypePassedThrough ==
    [][\A r \in DOMAIN reqs :
          (/\ NewLines(r) # <<>>
           /\ \A i \in 1..Len(NewLines(r)) : UnknownTypeLine(NewLines(r)[i]))
          =>  LET st == PassedThrough(St(r), NewLines(r)) IN
              /\ reqs'[r].finalResponse = reqs[r].finalResponse
              /\ reqs'[r].phase = "open"
              /\ reqs'[r].statusUpdates = st.rq.statusUpdates
              /\ reqs'[r].ctxStatusUpdates = st.rq.ctxStatusUpdates
              /\ messages' = st.msgs
              /\ isTyping' = st.typing]_vars

----------------------------------------------------------------------------
(* C22 *)

\* the line of the transcript that shows one StatusUpdate
TranscriptLine(u) ==
    IF u.agent.k = "str" /\ u.agent.s # <<>>
    THEN <<"**">> \o u.agent.s \o <<"**: ">> \o ToStr(u.message)
    ELSE ToStr(u.message)

\* the lines of the updates, a blank line between two of them, then the marker
RECURSIVE Transcript(_)
Transcript(us) ==
    IF us = <<>> THEN <<ProcessingMarker>>
    ELSE TranscriptLine(Head(us)) \o <<"\n\n">> \o Transcript(Tail(us))

NoThrowingLine(ls) == \A i \in 1..Len(ls) : ~ThrowingLine(ls[i])

\* C22: after every status event of a request the list holds the request's
\* placeholder; its content is the formatted lines of all the StatusUpdates
\* of the request so far, in order, followed by the progress marker, and its
\* statusUpdates field is that list; the list is the updates of the status
\* envelopes and plain-text lines handed over so far.
C22_PlaceholderShowsAllUpdates ==
    [][\A r \in DOMAIN reqs :
          StatusStep(r) =>
              /\ reqs'[r].phase = "open"
              /\ NoThrowingLine(reqs'[r].seen) =>
                    reqs'[r].ctxStatusUpdates = StatusLike(reqs'[r].seen)
              /\ \E i \in 1..Len(messages') :
                    /\ messages'[i].id = TurnId("temp", Cid(r))
                    /\ messages'[i].isTemp
                    /\ messages'[i].sender = "system"
                    /\ messages'[i].content =
                           Transcript(reqs'[r].ctxStatusUpdates)
                    /\ messages'[i].statusUpdates = reqs'[r].ctxStatusUpdates]_vars

C22_Witness ==
    \E r \in Requests :
        /\ Outstanding(r)
        /\ reqs[r].seen = << <<"{sA", "m1}">>, <<"t">>, <<"{s", "m2}">> >>
        /\ \E i \in 1..Len(messages) :
              /\ messages[i].isTemp
              /\ messages[i].content =
                     <<"**", "A", "**: ", "m1", "\n\n", "t", "\n\n", "m2", "\n\n",
                       ProcessingMarker>>
              /\ Len(messages[i].statusUpdates) = 3

----------------------------------------------------------------------------
(* C23 *)

IsPrefix(a, b) == Len(a) <= Len(b) /\ SubSeq(b, 1, Len(a)) = a

\* the StatusUpdates of the lines ls, one for each line that is shown as a
\* status: a status envelope, or a line kept as plain text
RECURSIVE EntriesOf(_)
EntriesOf(ls) ==
    IF ls = <<>> THEN <<>>
    ELSE (IF IsStatusLine(Head(ls)) THEN <<UpdateOfLine(Head(ls))>>
          ELSE IF Malformed(Head(ls)) \/ ThrowingLine(Head(ls))
          THEN <<[agent |-> JNull, message |-> JStr(Head(ls))]>>
          ELSE <<>>) \o EntriesOf(Tail(ls))

HistoryTurns(msgs, cid) ==
    SelectSeq(msgs, LAMBDA m : m.id = TurnId("status", cid) /\ m.isStatusHistory)

\* C23: the StatusUpdate list of a request only grows at its end, it holds
\* the updates of the lines of a leading part of the response body, one for
\* each such line and in the order of the lines, and the statusUpdates of a
\* history turn stay as they were at finalization.
C23_StatusListAppendOnly ==
    /\ [](\A r \in Requests :
             \E n \in 0..Len(BodyLines(r)) :
                 reqs[r].ctxStatusUpdates =
                     EntriesOf(SubSeq(BodyLines(r), 1, n)))
    /\ [][\A r \in DOMAIN reqs :
             /\ IsPrefix(reqs[r].ctxStatusUpdates, reqs'[r].ctxStatusUpdates)
             /\ (HistoryTurns(messages, Cid(r)) # <<>>
                    /\ HistoryTurns(messages', Cid(r)) # <<>>) =>
                   HistoryTurns(messages', Cid(r)) = HistoryTurns(messages, Cid(r))]_vars

----------------------------------------------------------------------------
(* C24 *)

\* request r has had its load event
Loaded(r) == Sent(r) /\ reqs[r].phase = "done" /\ reqs[r].status # 0

\* the run of request r in which the whole body arrives in one delivery,
\* from the user turn to the end of the load event with the same status
OneDelivery(r) ==
    LET rq == [NewRequest(Cid(r), reqs[r].content, reqs[r].body)
                  EXCEPT !.request = reqs[r].request]
        st == [rq |-> rq,
               msgs |-> <<Turn(TurnId("user", Cid(r)), "user", reqs[r].content)>>,
               typing |-> TRUE]
    IN  OnLoad(IF reqs[r].body = <<>> THEN st
               ELSE OnProgress(st, Len(reqs[r].body)),
               reqs[r].status)

LastTurn(msgs) == msgs[Len(msgs)]

\* C24: after the load event the values handed to the terminal callbacks,
\* the content of the final turn and the StatusUpdates kept in the history
\* turn are those of the run in which the same body arrives in one delivery
\* and the load event has the same status.
C24_OutcomeIndependentOfChunking ==
    \A r \in Requests :
        Loaded(r) =>
            /\ reqs[r].completed = OneDelivery(r).rq.completed
            /\ reqs[r].nError = OneDelivery(r).rq.nError
            /\ LastTurn(messages).content = LastTurn(OneDelivery(r).msgs).content
            /\ LastTurn(messages).isError = LastTurn(OneDelivery(r).msgs).isError
            /\ HistoryTurns(messages, Cid(r)) =
                   HistoryTurns(OneDelivery(r).msgs, Cid(r))

----------------------------------------------------------------------------
(* C25 *)

\* the stream of C25: a successful load, no response envelope captured, and
\* a last line that is a JSON object with content X
C25Case(r) ==
    /\ Loaded(r)
    /\ reqs[r].status >= 200 /\ reqs[r].status < 300
    /\ ~Truthy(reqs[r].finalResponse)
    /\ BodyLines(r) # <<>>
    /\ JSONParse(BodyLines(r)[Len(BodyLines(r))]) = [ok |-> TRUE, v |-> ObjX]

EarlierLines(r) == SubSeq(BodyLines(r), 1, Len(BodyLines(r)) - 1)

\* C25: in that case onComplete is called once, with the parsed last line,
\* the list ends with the final turn of content X, and every earlier line
\* that is plain text is a StatusUpdate with agent null of the request.
C25_LastLineIsResult ==
    \A r \in Requests :
        C25Case(r) =>
            /\ reqs[r].completed = <<ObjX>>
            /\ LastTurn(messages) = Turn(TurnId("system", Cid(r)), "system", <<"X">>)
            /\ \A i \in 1..Len(EarlierLines(r)) :
                  Malformed(EarlierLines(r)[i]) =>
                      \E j \in 1..Len(reqs[r].ctxStatusUpdates) :
                          reqs[r].ctxStatusUpdates[j] =
                              [agent |-> JNull,
                               message |-> JStr(EarlierLines(r)[i])]

----------------------------------------------------------------------------
(* C26 *)

IsWelcomeTurn(m) ==
    /\ m.id.p = "welcome"
    /\ m.sender = "system"
    /\ m.content = WelcomeText
    /\ ~m.isTemp /\ ~m.isError /\ ~m.isStatusHistory

\* C26: once the welcome effect has run, the turn list is never empty and
\* its first turn is the welcome turn, whatever sendMessage calls, status
\* updates, completions, errors and clearChat calls follow; no request is
\* submitted before that.
C26_WelcomeTurnFirst ==
    /\ [](reqs # <<>> => Mounted)
    /\ [](Mounted => IsWelcomeTurn(messages[1]))
    /\ [][Mounted => Mounted']_vars

C26_Witness ==
    /\ Len(messages) >= 3
    /\ messages[1].id.p = "welcome" /\ messages[1].id.n > 0
    /\ messages[2].isStatusHistory
    /\ \E r \in Requests : reqs[r].nError = 1
    /\ \E r \in Requests : Succeeded(r)

----------------------------------------------------------------------------
(* C27 *)

NotBlank(text) == \E i \in 1..Len(text) : text[i] \notin Whitespace

\* a sendMessage call that started no request
RefusedCall == calls' = calls + 1 /\ Len(reqs') = Len(reqs)

\* C27: a sendMessage call with empty or whitespace-only content changes
\* nothing: every request record, and so every HTTP request, and every user
\* turn comes from a call with other content, and a call that starts no
\* request leaves the turn list, isTyping, the stored user id and the
\* requests as they were.
C27_BlankSendIsNoOp ==
    /\ [](/\ \A r \in Requests : NotBlank(reqs[r].content)
          /\ \A i \in 1..Len(messages) :
                messages[i].sender = "user" => NotBlank(messages[i].content)
          /\ Len(reqs) <= calls)
    /\ [][RefusedCall =>
             /\ messages' = messages
             /\ isTyping' = isTyping
             /\ storage' = storage
             /\ reqs' = reqs
             /\ drawn' = drawn]_vars

C27_Witness ==
    /\ calls = 3
    /\ Len(reqs) = 1
    /\ Outstanding(1)
    /\ isTyping
    /\ Len(messages) = 3
    /\ messages[3].isTemp

----------------------------------------------------------------------------
(* C28 *)

UserTurns(cid) == TurnsWithId(TurnId("user", cid))
StatusTurns(cid) ==
    TurnsWithId(TurnId("temp", cid)) \cup TurnsWithId(TurnId("status", cid))
ResultTurns(cid) == TurnsWithId(TurnId("system", cid))

\* C28: of every request the list holds at most one user turn, at most one
\* placeholder or history turn and at most one final or error turn, and
\* those it holds stand in this order.
C28_TurnOrderPerRequest ==
    \A r \in Requests :
        /\ Cardinality(UserTurns(Cid(r))) <= 1
        /\ Cardinality(StatusTurns(Cid(r))) <= 1
        /\ Cardinality(ResultTurns(Cid(r))) <= 1
        /\ \A u \in UserTurns(Cid(r)) :
              \A p \in StatusTurns(Cid(r)) \cup ResultTurns(Cid(r)) : u < p
        /\ \A p \in StatusTurns(Cid(r)) : \A f \in ResultTurns(Cid(r)) : p < f

----------------------------------------------------------------------------
(* C29 *)

\* C29: isTyping is true exactly when some request has been submitted and
\* has not had its terminal callback.
C29_TypingTracksOutstanding ==
    isTyping <=> \E r \in Requests : Outstanding(r) /\ ~Terminated(r)

----------------------------------------------------------------------------
(* C30 *)

\* the list holds a placeholder, history, final or error turn of request r
\* without the user turn of r: the turn was added after a clearChat that
\* came after the submission
AddedAfterClear(r) ==
    /\ StatusTurns(Cid(r)) \cup ResultTurns(Cid(r)) # {}
    /\ UserTurns(Cid(r)) = {}

\* C30: a clearChat call leaves the list with the welcome turn alone, and
\* no turn of a request submitted before the call is added after it.
C30_ClearChatResets ==
    /\ [][ClearChat => Len(messages') = 1 /\ IsWelcomeTurn(messages'[1])]_vars
    /\ [](\A r \in Requests : ~AddedAfterClear(r))

====
